---- MODULE Spec2Model ----
(***************************************************************************)
(* Model of the DietPrompt engine (src/js/engine.ts): the default prompt   *)
(* compression rule (compressPromptDefault) and the prompt accounting      *)
(* session (DietPromptCompletion with its two BasePrompt sides and their   *)
(* tiktoken encodings).                                                    *)
(*                                                                         *)
(* A JavaScript string is a sequence of one-character strings, so that     *)
(* replace / split / filter / join are computed character by character.    *)
(* A JavaScript value is a record [type, str, num].                        *)
(***************************************************************************)
EXTENDS Naturals, Sequences, FiniteSets

VARIABLES
    text,                     \* argument handed to compressPromptDefault
    out,                      \* its return value (a JS value; undefined before the call)
    openAICompletionRequest,  \* the caller's request object (one heap object, shared by reference)
    compressionType,          \* DietPromptCompletion.compressionType
    suppliedPrompt,           \* history: the prompt the request carried when the constructor was entered
    pc,                       \* "new" (constructor not run), "built" (it returned), "failed" (it threw)
    error,                    \* message of the exception the constructor threw ("" if none)
    originalPrompt,           \* DietPromptCompletion.originalPrompt
    dietPrompt,               \* DietPromptCompletion.dietPrompt
    tiktoken,                 \* the Tiktoken resources: id -> "unallocated" | "live" | "freed"
    lastCall,                 \* the last method call made on the session and what it did
    calls                     \* number of method calls made so far

vars == << text, out, openAICompletionRequest, compressionType, suppliedPrompt,
           pc, error, originalPrompt, dietPrompt, tiktoken, lastCall, calls >>

compressVars == << text, out >>
sessionVars == << openAICompletionRequest, compressionType, suppliedPrompt, pc, error,
                  originalPrompt, dietPrompt, tiktoken, lastCall, calls >>

-----------------------------------------------------------------------------
(* Bounds *)

MaxPieces == 5          \* inputs of the compression rule: at most this many pieces
MaxSessionPieces == 3   \* prompts of a session: at most this many pieces
MaxCalls == 4           \* method calls made on one session

-----------------------------------------------------------------------------
(* JavaScript values *)

Undefined == [type |-> "undefined", str |-> <<>>, num |-> 0]
Null == [type |-> "null", str |-> <<>>, num |-> 0]
Str(s) == [type |-> "string", str |-> s, num |-> 0]
Num(n) == [type |-> "number", str |-> <<>>, num |-> n]

\* typeof v === "string"
IsString(v) == v.type = "string"

-----------------------------------------------------------------------------
(* Strings *)

\* the text from position i on
Drop(s, i) == SubSeq(s, i, Len(s))

\* does s start with p?
StartsWith(s, p) == Len(s) >= Len(p) /\ SubSeq(s, 1, Len(p)) = p

RECURSIVE Contains(_, _)
\* does p occur in s?
Contains(s, p) ==
    IF Len(s) < Len(p) THEN FALSE
    ELSE StartsWith(s, p) \/ Contains(Tail(s), p)

\* case folding of the /i flag, on the letters of the pattern
ToLower(c) ==
    CASE c = "D" -> "d"
      [] c = "O" -> "o"
      [] c = "N" -> "n"
      [] c = "T" -> "t"
      [] OTHER -> c

LowerAll(s) == [i \in 1..Len(s) |-> ToLower(s[i])]

DoNot == <<"d", "o", " ", "n", "o", "t">>
Dont == <<"d", "o", "n", "'", "t">>

RECURSIVE ReplaceDoNot(_)
\* prompt.replace(/do not/gi, "don't"): leftmost non-overlapping matches
ReplaceDoNot(s) ==
    IF s = <<>> THEN <<>>
    ELSE IF Len(s) >= Len(DoNot) /\ LowerAll(SubSeq(s, 1, Len(DoNot))) = DoNot
         THEN Dont \o ReplaceDoNot(Drop(s, Len(DoNot) + 1))
         ELSE <<Head(s)>> \o ReplaceDoNot(Tail(s))

PUNCTUATION == {".", ",", "'", "\"", "!", "?", ";", ":", "-"}

IsKept(c) == c \notin PUNCTUATION

\* prompt.split("").filter((char) => !PUNCTUATION.includes(char)).join("")
RemovePunctuation(s) == SelectSeq(s, IsKept)

RECURSIVE SplitSpace(_)
\* s.split(" "): the empty string gives one empty word, k spaces give k+1 words
SplitSpace(s) ==
    IF s = <<>> THEN << <<>> >>
    ELSE LET r == SplitSpace(Tail(s))
         IN  IF Head(s) = " " THEN << <<>> >> \o r
             ELSE << <<Head(s)>> \o Head(r) >> \o Tail(r)

RECURSIVE JoinSpaceTrailing(_)
JoinSpaceTrailing(words) ==
    IF words = <<>> THEN <<>>
    ELSE Head(words) \o <<" ">> \o JoinSpaceTrailing(Tail(words))

RECURSIVE JoinSpace(_)
\* words.join(" "): the separator goes between the words only
JoinSpace(words) ==
    IF words = <<>> THEN <<>>
    ELSE IF Len(words) = 1 THEN words[1]
    ELSE Head(words) \o <<" ">> \o JoinSpace(Tail(words))

\* stopwords.english (./data): the entries the documentation names
stopwords_english ==
    { <<"t", "h", "i", "s">>, <<"i", "s">>, <<"a", "n">>, <<"t", "o">>,
      <<"o", "u", "t">>, <<"t", "h", "e">> }

NotStopword(word) == word \notin stopwords_english

RECURSIVE RemoveFirstStopword(_)
RemoveFirstStopword(words) ==
    IF words = <<>> THEN <<>>
    ELSE IF Head(words) \in stopwords_english THEN Tail(words)
    ELSE <<Head(words)>> \o RemoveFirstStopword(Tail(words))

\* words.filter((word) => !stopwords.english.includes(word))
RemoveStopwords(words) == SelectSeq(words, NotStopword)

compressPromptDefaultStripFirst(prompt) ==
    JoinSpace(RemoveStopwords(SplitSpace(ReplaceDoNot(RemovePunctuation(prompt)))))

compressPromptDefault(prompt) ==
    JoinSpace(RemoveStopwords(SplitSpace(RemovePunctuation(ReplaceDoNot(prompt)))))

-----------------------------------------------------------------------------
(* Inputs of the compression rule *)

Pieces ==
    { <<"d", "o">>, <<"D", "o">>, <<"n", "o", "t">>, <<"t", "o">>, <<"g", "o">>,
      <<" ">>, <<"'">>, <<".">> }

RECURSIVE TextsUpTo(_)
\* every text made of at most n pieces
TextsUpTo(n) ==
    IF n = 0 THEN { <<>> }
    ELSE LET shorter == TextsUpTo(n - 1)
         IN  shorter \cup { p \o t : p \in Pieces, t \in shorter }

DoNotGo == <<"D", "o", " ", "n", "o", "t", " ", "g", "o">>
EndOfText == <<"<", "|", "e", "n", "d", "o", "f", "t", "e", "x", "t", "|", ">">>

CompressTexts == TextsUpTo(MaxPieces) \cup {DoNotGo}

-----------------------------------------------------------------------------
(* The session: DietPromptCompletion and its BasePrompt sides *)

MissingField == "Prompt and Model are required"
InvalidInput == "Prompt must be a string."
UnsupportedModel == "encoding_for_model: unsupported model"
NotAFunction == "TypeError: prompt.replace is not a function"

Thrown(msg) == [type |-> "throw", str |-> <<msg>>, num |-> 0]

Gpt35 == <<"gpt-3.5-turbo">>
NoSuchModel == <<"no-such-model">>
TiktokenModels == {Gpt35}

\* encoding_for_model(model) returns a tokenizer for the models it knows and throws for the rest
Supported(model) == IsString(model) /\ model.str \in TiktokenModels

EncodingIds == 1..2
NoTiktoken == [id \in EncodingIds |-> "unallocated"]

NoPrompt == [defined |-> FALSE, request |-> "", tiktokenEncoding |-> 0]

\* new BasePrompt(request, openai): a fresh encoding, and a reference to the request object
BasePrompt(id) ==
    [defined |-> TRUE, request |-> "openAICompletionRequest", tiktokenEncoding |-> id]

\* the first guard of the constructor: `x === undefined || null` tests undefined only
CheckRequired(req) ==
    IF req.prompt.type = "undefined" \/ req.model.type = "undefined"
    THEN MissingField ELSE ""

CheckPromptTypeOmitted(req) == ""

\* the second guard: typeof prompt !== "string"
CheckPromptType(req) ==
    IF ~IsString(req.prompt) THEN InvalidInput ELSE ""

compressPromptIdentity(ctype, prompt) ==
    CASE ctype = "default" -> prompt
      [] OTHER -> Undefined

\* DietPromptCompletion.compressPrompt: a switch with the single case "default"
compressPrompt(ctype, prompt) ==
    CASE ctype = "default" ->
            IF IsString(prompt) THEN Str(compressPromptDefault(prompt.str))
            ELSE Thrown(NotAFunction)
      [] OTHER -> Undefined

NoCall ==
    [op |-> "", side |-> "", live |-> TRUE, outcome |-> "", arg |-> Undefined,
     value |-> Undefined, tokens |-> <<>>]

\* the constructor threw msg, with the encodings tk allocated so far
Fail(msg, tk) ==
    /\ pc' = "failed"
    /\ error' = msg
    /\ tiktoken' = tk
    /\ UNCHANGED << openAICompletionRequest, originalPrompt, dietPrompt >>

\* new DietPromptCompletion(configuration, request, compressionType)
Build ==
    /\ pc = "new"
    /\ LET req == openAICompletionRequest
           one == [tiktoken EXCEPT ![1] = "live"]
           diet == compressPrompt(compressionType, req.prompt)
       IN  IF CheckRequired(req) # "" THEN Fail(CheckRequired(req), tiktoken)
           ELSE IF CheckPromptType(req) # "" THEN Fail(CheckPromptType(req), tiktoken)
           ELSE IF ~Supported(req.model) THEN Fail(UnsupportedModel, tiktoken)
           ELSE IF compressionType = "none"
                THEN /\ pc' = "built"
                     /\ originalPrompt' = BasePrompt(1)
                     /\ tiktoken' = one
                     /\ UNCHANGED << openAICompletionRequest, dietPrompt, error >>
           ELSE IF diet.type = "throw" THEN Fail(diet.str[1], one)
           ELSE /\ pc' = "built"
                /\ originalPrompt' = BasePrompt(1)
                /\ openAICompletionRequest' = [req EXCEPT !.prompt = diet]
                /\ dietPrompt' = BasePrompt(2)
                /\ tiktoken' = [one EXCEPT ![2] = "live"]
                /\ UNCHANGED error
    /\ UNCHANGED << compressVars, compressionType, suppliedPrompt, lastCall, calls >>

Sides == {"originalPrompt", "dietPrompt"}

Side(name) == IF name = "originalPrompt" THEN originalPrompt ELSE dietPrompt

\* the object a reference points to; the session holds references to one request object only
Deref(ref) ==
    IF ref = "openAICompletionRequest" THEN openAICompletionRequest
    ELSE [prompt |-> Undefined, model |-> Undefined]

\* BasePrompt.getPrompt: this.request.prompt, read through the reference
getPrompt(side) == Deref(side.request).prompt

\* BasePrompt.estimatedPromptCost: this.request.prompt.length
estimatedPromptCost(side) == Len(getPrompt(side).str)

\* the tokenizer refuses text that holds a special token
EncodeThrows(s) == Contains(s, EndOfText)

Code(c) ==
    CASE c = " " -> 0
      [] c \in PUNCTUATION -> 1
      [] c \in {"d", "D"} -> 2
      [] c \in {"o", "O"} -> 3
      [] OTHER -> 4

\* Tiktoken.encode, abstracted: the ids depend on the text and on nothing else
Encode(s) == [i \in 1..Len(s) |-> Code(s[i])]

Garbage == { <<>>, <<0>> }

\* the body shared by tokensCount() and tokens(): encode, then free
EncodeAndFree(op, name) ==
    /\ pc = "built"
    /\ calls < MaxCalls
    /\ Side(name).defined
    /\ LET enc == Side(name).tiktokenEncoding
           prompt == getPrompt(Side(name))
           call == [NoCall EXCEPT !.op = op, !.side = name]
       IN  IF tiktoken[enc] = "live"
           THEN IF EncodeThrows(prompt.str)
                THEN /\ lastCall' = [call EXCEPT !.outcome = "throws"]
                     /\ UNCHANGED tiktoken
                ELSE /\ lastCall' = [call EXCEPT !.outcome = "returns",
                                                 !.tokens = Encode(prompt.str),
                                                 !.value = Num(Len(Encode(prompt.str)))]
                     /\ tiktoken' = [tiktoken EXCEPT ![enc] = "freed"]
           ELSE \* encode on a freed encoding: it throws, or it returns anything
                /\ \/ lastCall' = [call EXCEPT !.live = FALSE, !.outcome = "throws"]
                   \/ \E g \in Garbage :
                        lastCall' = [call EXCEPT !.live = FALSE, !.outcome = "returns",
                                                 !.tokens = g, !.value = Num(Len(g))]
                /\ UNCHANGED tiktoken
    /\ calls' = calls + 1
    /\ UNCHANGED << compressVars, openAICompletionRequest, compressionType, suppliedPrompt,
                    pc, error, originalPrompt, dietPrompt >>

\* BasePrompt.tokensCount()
tokensCount == \E name \in Sides : EncodeAndFree("tokensCount", name)

\* BasePrompt.tokens()
tokens == \E name \in Sides : EncodeAndFree("tokens", name)

CallArgs == { <<"g", "o">>, <<"t", "o", " ", "g", "o">>, DoNotGo }

\* a call of the public method compressPrompt on the built session
compressPromptCall ==
    /\ pc = "built"
    /\ calls < MaxCalls
    /\ \E t \in CallArgs :
         lastCall' = [NoCall EXCEPT !.op = "compressPrompt", !.arg = Str(t),
                                    !.value = compressPrompt(compressionType, Str(t))]
    /\ calls' = calls + 1
    /\ UNCHANGED << compressVars, openAICompletionRequest, compressionType, suppliedPrompt,
                    pc, error, originalPrompt, dietPrompt, tiktoken >>

SessionTexts == TextsUpTo(MaxSessionPieces) \cup {DoNotGo, EndOfText}
PromptValues == {Undefined, Null, Num(123)} \cup { Str(t) : t \in SessionTexts }
ModelValues == {Undefined, Null, Str(Gpt35), Str(NoSuchModel)}

Init ==
    /\ text = <<>>
    /\ out = Undefined
    /\ openAICompletionRequest \in [prompt : PromptValues, model : ModelValues]
    /\ compressionType \in {"none", "default"}
    /\ suppliedPrompt = openAICompletionRequest.prompt
    /\ pc = "new"
    /\ error = ""
    /\ originalPrompt = NoPrompt
    /\ dietPrompt = NoPrompt
    /\ tiktoken = NoTiktoken
    /\ lastCall = NoCall
    /\ calls = 0

Next ==
    \/ Build
    \/ tokensCount
    \/ tokens
    \/ compressPromptCall

Spec == Init /\ [][Next]_vars

-----------------------------------------------------------------------------
(* The compression rule on its own *)

InitCompress ==
    /\ text \in CompressTexts
    /\ out = Undefined
    /\ openAICompletionRequest = [prompt |-> Undefined, model |-> Undefined]
    /\ compressionType = "default"
    /\ suppliedPrompt = Undefined
    /\ pc = "new"
    /\ error = ""
    /\ originalPrompt = NoPrompt
    /\ dietPrompt = NoPrompt
    /\ tiktoken = NoTiktoken
    /\ lastCall = NoCall
    /\ calls = 0

\* compressPromptDefault(text)
CompressDefault ==
    /\ out = Undefined
    /\ out' = Str(compressPromptDefault(text))
    /\ UNCHANGED << text, sessionVars >>

NextCompress == CompressDefault

SpecCompress == InitCompress /\ [][NextCompress]_vars

-----------------------------------------------------------------------------
(* Properties of the compression rule, under SpecCompress *)

Words(s) == { SplitSpace(s)[i] : i \in 1..Len(SplitSpace(s)) }

\* C6: non-expansion: compress(default, t) is never longer than t.
C6_NonExpansion == IsString(out) => Len(out.str) <= Len(text)

C6_Witness ==
    /\ IsString(out)
    /\ text # <<>>
    /\ ReplaceDoNot(text) # text
    /\ Contains(text, <<".">>)
    /\ Len(out.str) < Len(text)

\* C8: compress(default, t) holds no punctuation character, and "Do not go"
\* becomes text that holds "dont" and no apostrophe.
C8_NoPunctuationLeft ==
    IsString(out) =>
        /\ \A i \in 1..Len(out.str) : out.str[i] \notin PUNCTUATION
        /\ text = DoNotGo => Contains(out.str, <<"d", "o", "n", "t">>)

C8_Witness ==
    /\ IsString(out)
    /\ text = DoNotGo
    /\ out.str = <<"d", "o", "n", "t", " ", "g", "o">>

\* C9: for a stopword w and a text "w rest", w is not a word of
\* compress(default, "w rest"); a word that differs in case stays.
C9_StopwordRemoved ==
    IsString(out) =>
        \A w \in stopwords_english :
            StartsWith(text, w \o <<" ">>) => w \notin Words(out.str)

C9_Witness ==
    /\ IsString(out)
    /\ StartsWith(text, <<"t", "o", " ">>)
    /\ Contains(Drop(text, 4), <<"t", "o">>)
    /\ <<"g", "o">> \in Words(out.str)

-----------------------------------------------------------------------------
(* Properties of the session, under Spec *)

Absent(v) == v.type \in {"undefined", "null"}

NoneLive == \A id \in EncodingIds : tiktoken[id] # "live"

\* C1: after a build with strategy default the original side still returns the
\* supplied prompt and its length.
C1_OriginalKeepsPrompt ==
    (pc = "built" /\ compressionType = "default") =>
        /\ getPrompt(originalPrompt) = suppliedPrompt
        /\ estimatedPromptCost(originalPrompt) = Len(suppliedPrompt.str)

\* C2: between calls, also right after construction and after a failed
\* encoding, no tokenizer resource is held.
C2_NoTokenizerHeldBetweenCalls == pc = "built" => NoneLive

\* C3: compressPrompt on a session whose compressionType is "none" returns its
\* argument unchanged.
C3_NoneIsIdentity ==
    (lastCall.op = "compressPrompt" /\ compressionType = "none") =>
        lastCall.value = lastCall.arg

\* C4: an absent prompt or model (undefined or null) fails the build with the
\* missing-field error, and a present non-string prompt with a present model
\* fails it with the invalid-input error.
C4_ErrorKinds ==
    pc # "new" =>
        LET absent == Absent(suppliedPrompt) \/ Absent(openAICompletionRequest.model)
        IN  /\ absent => (pc = "failed" /\ error = MissingField)
            /\ (~absent /\ ~IsString(suppliedPrompt)) =>
                   (pc = "failed" /\ error = InvalidInput)

\* C5: a failed build leaves the request's prompt as supplied, holds no
\* tokenizer resource and has built no side.
C5_FailedBuildAtomic ==
    pc = "failed" =>
        /\ openAICompletionRequest.prompt = suppliedPrompt
        /\ NoneLive
        /\ ~originalPrompt.defined
        /\ ~dietPrompt.defined

C5_Witness ==
    /\ pc = "failed"
    /\ error = UnsupportedModel
    /\ compressionType = "default"
    /\ IsString(suppliedPrompt)
    /\ compressPromptDefault(suppliedPrompt.str) # suppliedPrompt.str

\* C7: after a successful build the compressed side exists iff the strategy
\* is not none; its text is compress(default, p) of the supplied prompt p; with
\* none the request's prompt is left as supplied.
C7_CompressedSide ==
    pc = "built" =>
        /\ dietPrompt.defined <=> compressionType # "none"
        /\ dietPrompt.defined =>
               getPrompt(dietPrompt) = Str(compressPromptDefault(suppliedPrompt.str))
        /\ compressionType = "none" =>
               (dietPrompt = NoPrompt /\ openAICompletionRequest.prompt = suppliedPrompt)

C7_Witness ==
    /\ pc = "built"
    /\ dietPrompt.defined
    /\ getPrompt(dietPrompt) # suppliedPrompt
    /\ getPrompt(dietPrompt).str = <<"d", "o", "n", "t", " ", "g", "o">>

\* C10: every tokensCount() / tokens() call encodes with a live tokenizer and
\* returns the tokens of that side's text.
C10_NoUseAfterRelease ==
    lastCall.op \in {"tokensCount", "tokens"} =>
        /\ lastCall.live
        /\ lastCall.outcome = "returns" =>
               lastCall.tokens = Encode(getPrompt(Side(lastCall.side)).str)

====
